---- MODULE Spec2Model ----
(***************************************************************************)
(* Model of backend/main.py: a micro-blogging backend with two tables      *)
(* (posts, likes), a fixed user directory and bearer-token authentication. *)
(* Strings that the code parses (the Authorization header, usernames) are  *)
(* sequences of one-character strings; opaque strings (ids, texts,         *)
(* messages) are TLA+ strings.                                             *)
(***************************************************************************)
EXTENDS Integers, Sequences, FiniteSets, TLC

\* ---------------------------------------------------------------- bounds
\* number of post ids uuid4 can hand out (= number of create_post calls)
MaxPosts == 2
\* largest advance of the wall clock between two reads of datetime.now
MaxGap == 1
\* largest rowid the likes table hands out
MaxLikeId == 2
\* number of request slots of the interleaved specification
MaxReq == 2

\* ------------------------------------------------------- character strings
S_user1 == <<"u", "s", "e", "r", "1">>
S_user2 == <<"u", "s", "e", "r", "2">>
S_user3 == <<"u", "s", "e", "r", "3">>
S_Bearer == <<"B", "e", "a", "r", "e", "r", " ">>

\* the value of a request without an Authorization header
NoHeader == <<"<", "n", "o", "n", "e", ">">>

\* the Authorization headers the requests are drawn from
Headers ==
    { S_Bearer \o S_user1,
      S_Bearer \o S_user2,
      S_Bearer \o S_user3,
      S_user1,
      NoHeader }

\* the post texts the requests are drawn from
Texts == {"", "hello"}

\* the usernames get_user_posts is asked about
Usernames == {S_user1, S_user2, S_user3}

\* the values uuid4 can return, and the ids a request path can name
PostIds == 1..MaxPosts

\* ------------------------------------------------------------ user directory
FAKE_USERS_DB ==
    [k \in {S_user1, S_user2} |->
        IF k = S_user1
        THEN [id |-> "1", username |-> S_user1, password |-> "password1"]
        ELSE [id |-> "2", username |-> S_user2, password |-> "password2"]]

\* a user that no request resolved to
NoUser == [id |-> "none", username |-> <<>>]

\* ------------------------------------------------------------ str methods
\* str.startswith
StartsWith(s, prefix) ==
    /\ Len(s) >= Len(prefix)
    /\ SubSeq(s, 1, Len(prefix)) = prefix

\* index of the first sep in s at or after position i, or Len(s)+1
RECURSIVE FindSep(_, _, _)
FindSep(s, sep, i) ==
    IF i > Len(s) THEN Len(s) + 1
    ELSE IF s[i] = sep THEN i
    ELSE FindSep(s, sep, i + 1)

\* str.split(sep) for a one-character separator: every occurrence splits,
\* consecutive separators give empty pieces
RECURSIVE Split(_, _)
Split(s, sep) ==
    LET j == FindSep(s, sep, 1)
    IN  IF j > Len(s) THEN << s >>
        ELSE << SubSeq(s, 1, j - 1) >> \o Split(SubSeq(s, j + 1, Len(s)), sep)

\* ------------------------------------------------------------ authentication
\* get_current_user: the status it raises (200 when it returns) and the user.
\* A request without the header is rejected by the required Header() parameter.
get_current_user(authorization) ==
    IF authorization = NoHeader
    THEN [status |-> 422, user |-> NoUser, detail |-> "Field required"]
    ELSE IF ~StartsWith(authorization, S_Bearer)
    THEN [status |-> 401, user |-> NoUser, detail |-> "Invalid scheme"]
    ELSE LET token == Split(authorization, " ")[2]
         IN  IF token \notin DOMAIN FAKE_USERS_DB
             THEN [status |-> 401, user |-> NoUser, detail |-> "Invalid token"]
             ELSE [status |-> 200,
                   user |-> [id |-> FAKE_USERS_DB[token].id,
                             username |-> FAKE_USERS_DB[token].username],
                   detail |-> ""]

\* ---------------------------------------------------------------- state
VARIABLES
    posts,      \* table posts: set of rows [id, text, timestamp, owner_id, owner_username]
    likes,      \* table likes: set of rows [id, user_id, post_id]
    clock,      \* the last value datetime.now returned
    issued,     \* the values uuid4 has returned so far
    resp,       \* the last request that ran to completion, and its response
    created,    \* history: ids of the created posts, in creation order
    liked,      \* history: the (user id, post id) whose last successful like/unlike was a like
    prevLikes,  \* history: the likes table before the last request that ran to completion
    inflight    \* interleaved specification: per slot, the request in progress and
                \* where it stands, or the finished request and its status

vars == << posts, likes, clock, issued, resp, created, liked, prevLikes, inflight >>

UserIds == { FAKE_USERS_DB[k].id : k \in DOMAIN FAKE_USERS_DB }

\* ---------------------------------------------------------------- queries
\* (mutation) the post query without its filter on the id
PostById_NoFilter(ps, post_id) == ps

\* db.query(PostDB).filter(PostDB.id == post_id).first()
PostById(ps, post_id) == { p \in ps : p.id = post_id }

\* (mutation) the like query with a filter that matches no row
LikesOf_NoMatch(ls, post_id, uid) == {}

\* (mutation) the like query without its filter on the user
LikesOf_AnyUser(ls, post_id, uid) == { l \in ls : l.post_id = post_id }

\* db.query(LikeDB).filter(LikeDB.post_id == post_id, LikeDB.user_id == uid)
LikesOf(ls, post_id, uid) == { l \in ls : l.post_id = post_id /\ l.user_id = uid }

\* (mutation) the per-user query without its filter on the owner
OwnedBy_NoFilter(ps, username) == ps

\* db.query(PostDB).filter(PostDB.owner_username == username)
OwnedBy(ps, username) == { p \in ps : p.owner_username = username }

\* (mutation) the count without its filter on the post
likes_count_AllRows(ls, post_id) == Cardinality(ls)

\* db.query(LikeDB).filter(LikeDB.post_id == post.id).count()
likes_count(ls, post_id) == Cardinality({ l \in ls : l.post_id = post_id })

\* (mutation) delete_post without the removal of the likes
LikesAfterDelete_Kept(ls, post_id) == ls

\* (mutation) the bulk delete without its filter on the post
LikesAfterDelete_All(ls, post_id) == {}

\* db.query(LikeDB).filter(LikeDB.post_id == post_id).delete()
LikesAfterDelete(ls, post_id) == { l \in ls : l.post_id # post_id }

\* (mutation) the ownership check inverted
NotOwner_Inverted(post, uid) == post.owner_id = uid

\* post_to_delete.owner_id != current_user.id
NotOwner(post, uid) == post.owner_id # uid

\* the rowid the likes table gives a new row: one more than the largest
NextLikeId(ls) ==
    IF ls = {} THEN 1
    ELSE (CHOOSE m \in { l.id : l \in ls } : \A l \in ls : l.id <= m) + 1

\* the pydantic Post built from a row
Post(p, n) ==
    [id |-> p.id, text |-> p.text, timestamp |-> p.timestamp,
     owner_id |-> p.owner_id, owner_username |-> p.owner_username,
     likes_count |-> n]

\* (mutation) ORDER BY timestamp, ascending
OrderedDesc_Asc(s) == \A i, j \in 1..Len(s) : i < j => s[i].timestamp <= s[j].timestamp

\* ORDER BY timestamp DESC
OrderedDesc(s) == \A i, j \in 1..Len(s) : i < j => s[i].timestamp >= s[j].timestamp

\* the sequences that enumerate the rows of ps once each
Enumerations(ps) ==
    { s \in [1..Cardinality(ps) -> ps] : \A p \in ps : \E i \in 1..Cardinality(ps) : s[i] = p }

\* the results .order_by(PostDB.timestamp.desc()).all() can give for the rows ps
OrderByTimestampDesc(ps) == { s \in Enumerations(ps) : OrderedDesc(s) }

\* a completed request (operation, header, resolved user id, path and body
\* parameters) and its response (status code, message, returned posts)
Response(op, hdr, user, post_id, text, username, status, detail, body) ==
    [op |-> op, hdr |-> hdr, user |-> user, post_id |-> post_id, text |-> text,
     username |-> username, status |-> status, detail |-> detail, body |-> body]

\* a request slot: op is the endpoint, pc the next statement of its handler
\* ("idle" before the request arrives, "done" once it has been answered), row
\* the id of the row the handler holds from its last query (0: none)
Slot(op, pc, hdr, user, post_id, row, status) ==
    [op |-> op, pc |-> pc, hdr |-> hdr, user |-> user, post_id |-> post_id,
     row |-> row, status |-> status]

Idle == Slot("none", "idle", NoHeader, "none", 0, 0, 0)

Init ==
    /\ posts = {}
    /\ likes = {}
    /\ clock = 0
    /\ issued = {}
    /\ resp = Response("start", NoHeader, "none", 0, "", <<>>, 0, "", <<>>)
    /\ created = <<>>
    /\ liked = {}
    /\ prevLikes = {}
    /\ inflight = [r \in 1..MaxReq |-> Idle]

\* ------------------------------------------------------------ create_post
\* (mutation) an id generator that can repeat a value
uuid4_Repeating(iss) == PostIds

\* uuid.uuid4(): a value it has not returned before
uuid4(iss) == PostIds \ iss

\* datetime.now(timezone.utc): later than the previous reading
now(clk) == (clk + 1)..(clk + MaxGap)

\* (mutation) the row with the user's id stored as owner_username
NewPost_IdAsName(id, text, t, user) ==
    [id |-> id, text |-> text, timestamp |-> t,
     owner_id |-> user.id, owner_username |-> << user.id >>]

\* PostDB(id=..., text=..., timestamp=..., owner_id=..., owner_username=...)
NewPost(id, text, t, user) ==
    [id |-> id, text |-> text, timestamp |-> t,
     owner_id |-> user.id, owner_username |-> user.username]

\* the failure response of an endpoint whose credential was rejected
AuthFailure(op, hdr, post_id, text, auth) ==
    /\ resp' = Response(op, hdr, "none", post_id, text, <<>>, auth.status, auth.detail, <<>>)
    /\ UNCHANGED << posts, likes, clock, issued, created, liked, inflight >>
    /\ prevLikes' = likes

create_post(hdr, text) ==
    LET auth == get_current_user(hdr)
    IN  IF auth.status # 200
        THEN AuthFailure("create", hdr, 0, text, auth)
        ELSE \E id \in uuid4(issued), t \in now(clock) :
                LET new_post == NewPost(id, text, t, auth.user)
                IN  /\ posts' = posts \cup {new_post}
                    /\ issued' = issued \cup {id}
                    /\ clock' = t
                    /\ created' = Append(created, id)
                    /\ resp' = Response("create", hdr, auth.user.id, id, text, <<>>,
                                        201, "", << Post(new_post, 0) >>)
                    /\ UNCHANGED << likes, liked, inflight >>
                    /\ prevLikes' = likes

\* ------------------------------------------------------------ delete_post
\* (mutation) the likes removed, and committed, before the ownership check
delete_post_LikesFirst(hdr, post_id) ==
    LET auth == get_current_user(hdr)
        found == PostById(posts, post_id)
    IN  IF auth.status # 200
        THEN AuthFailure("delete", hdr, post_id, "", auth)
        ELSE IF found = {}
        THEN /\ resp' = Response("delete", hdr, auth.user.id, post_id, "", <<>>,
                                 404, "Post not found", <<>>)
             /\ UNCHANGED << posts, likes, clock, issued, created, liked, inflight >>
             /\ prevLikes' = likes
        ELSE \E post_to_delete \in found :
                /\ likes' = LikesAfterDelete(likes, post_id)
                /\ IF NotOwner(post_to_delete, auth.user.id)
                   THEN /\ resp' = Response("delete", hdr, auth.user.id, post_id, "", <<>>,
                                            403, "Not authorized to delete this post", <<>>)
                        /\ UNCHANGED posts
                   ELSE /\ posts' = posts \ {post_to_delete}
                        /\ resp' = Response("delete", hdr, auth.user.id, post_id, "", <<>>,
                                            204, "", <<>>)
                /\ UNCHANGED << clock, issued, created, liked, inflight >>
                /\ prevLikes' = likes

delete_post(hdr, post_id) ==
    LET auth == get_current_user(hdr)
        found == PostById(posts, post_id)
    IN  IF auth.status # 200
        THEN AuthFailure("delete", hdr, post_id, "", auth)
        ELSE IF found = {}
        THEN /\ resp' = Response("delete", hdr, auth.user.id, post_id, "", <<>>,
                                 404, "Post not found", <<>>)
             /\ UNCHANGED << posts, likes, clock, issued, created, liked, inflight >>
             /\ prevLikes' = likes
        ELSE \E post_to_delete \in found :
                IF NotOwner(post_to_delete, auth.user.id)
                THEN /\ resp' = Response("delete", hdr, auth.user.id, post_id, "", <<>>,
                                         403, "Not authorized to delete this post", <<>>)
                     /\ UNCHANGED << posts, likes, clock, issued, created, liked, inflight >>
                     /\ prevLikes' = likes
                ELSE /\ likes' = LikesAfterDelete(likes, post_id)
                     /\ posts' = posts \ {post_to_delete}
                     /\ resp' = Response("delete", hdr, auth.user.id, post_id, "", <<>>,
                                         204, "", <<>>)
                     /\ UNCHANGED << clock, issued, created, liked, inflight >>
                     /\ prevLikes' = likes

\* ------------------------------------------------------------ like_post
like_post(hdr, post_id) ==
    LET auth == get_current_user(hdr)
        post == PostById(posts, post_id)
        existing_like == LikesOf(likes, post_id, auth.user.id)
    IN  IF auth.status # 200
        THEN AuthFailure("like", hdr, post_id, "", auth)
        ELSE IF post = {}
        THEN /\ resp' = Response("like", hdr, auth.user.id, post_id, "", <<>>,
                                 404, "Post not found", <<>>)
             /\ UNCHANGED << posts, likes, clock, issued, created, liked, inflight >>
             /\ prevLikes' = likes
        ELSE IF existing_like # {}
        THEN /\ resp' = Response("like", hdr, auth.user.id, post_id, "", <<>>,
                                 400, "Already liked this post", <<>>)
             /\ UNCHANGED << posts, likes, clock, issued, created, liked, inflight >>
             /\ prevLikes' = likes
        ELSE /\ NextLikeId(likes) <= MaxLikeId
             /\ likes' = likes \cup { [id |-> NextLikeId(likes),
                                        user_id |-> auth.user.id, post_id |-> post_id] }
             /\ liked' = liked \cup { << auth.user.id, post_id >> }
             /\ resp' = Response("like", hdr, auth.user.id, post_id, "", <<>>,
                                 200, "Post liked successfully", <<>>)
             /\ UNCHANGED << posts, clock, issued, created, inflight >>
             /\ prevLikes' = likes

\* ------------------------------------------------------------ unlike_post
\* (mutation) the unlike that deletes every like of the post
unlike_post_AllOfPost(hdr, post_id) ==
    LET auth == get_current_user(hdr)
        post == PostById(posts, post_id)
        found == LikesOf(likes, post_id, auth.user.id)
    IN  IF auth.status # 200
        THEN AuthFailure("unlike", hdr, post_id, "", auth)
        ELSE IF post = {}
        THEN /\ resp' = Response("unlike", hdr, auth.user.id, post_id, "", <<>>,
                                 404, "Post not found", <<>>)
             /\ UNCHANGED << posts, likes, clock, issued, created, liked, inflight >>
             /\ prevLikes' = likes
        ELSE IF found = {}
        THEN /\ resp' = Response("unlike", hdr, auth.user.id, post_id, "", <<>>,
                                 400, "Post not liked", <<>>)
             /\ UNCHANGED << posts, likes, clock, issued, created, liked, inflight >>
             /\ prevLikes' = likes
        ELSE /\ likes' = { l \in likes : l.post_id # post_id }
             /\ liked' = liked \ { << auth.user.id, post_id >> }
             /\ resp' = Response("unlike", hdr, auth.user.id, post_id, "", <<>>,
                                 200, "Post unliked successfully", <<>>)
             /\ UNCHANGED << posts, clock, issued, created, inflight >>
             /\ prevLikes' = likes

unlike_post(hdr, post_id) ==
    LET auth == get_current_user(hdr)
        post == PostById(posts, post_id)
        found == LikesOf(likes, post_id, auth.user.id)
    IN  IF auth.status # 200
        THEN AuthFailure("unlike", hdr, post_id, "", auth)
        ELSE IF post = {}
        THEN /\ resp' = Response("unlike", hdr, auth.user.id, post_id, "", <<>>,
                                 404, "Post not found", <<>>)
             /\ UNCHANGED << posts, likes, clock, issued, created, liked, inflight >>
             /\ prevLikes' = likes
        ELSE IF found = {}
        THEN /\ resp' = Response("unlike", hdr, auth.user.id, post_id, "", <<>>,
                                 400, "Post not liked", <<>>)
             /\ UNCHANGED << posts, likes, clock, issued, created, liked, inflight >>
             /\ prevLikes' = likes
        ELSE \E like \in found :
                /\ likes' = likes \ {like}
                /\ liked' = liked \ { << auth.user.id, post_id >> }
                /\ resp' = Response("unlike", hdr, auth.user.id, post_id, "", <<>>,
                                    200, "Post unliked successfully", <<>>)
                /\ UNCHANGED << posts, clock, issued, created, inflight >>
                /\ prevLikes' = likes

\* ------------------------------------------------------------ listings
\* the result list built from the ordered rows: each with its like count
Annotate(rows, ls) == [i \in 1..Len(rows) |-> Post(rows[i], likes_count(ls, rows[i].id))]

list_posts ==
    \E rows \in OrderByTimestampDesc(posts) :
        /\ resp' = Response("list", NoHeader, "none", 0, "", <<>>, 200, "",
                            Annotate(rows, likes))
        /\ UNCHANGED << posts, likes, clock, issued, created, liked, inflight >>
        /\ prevLikes' = likes

get_user_posts(username) ==
    \E rows \in OrderByTimestampDesc(OwnedBy(posts, username)) :
        /\ resp' = Response("user_posts", NoHeader, "none", 0, "", username, 200, "",
                            Annotate(rows, likes))
        /\ UNCHANGED << posts, likes, clock, issued, created, liked, inflight >>
        /\ prevLikes' = likes

\* ------------------------------------------------------------ login
\* the value of a key the login body does not hold (dict.get gives None)
NoneStr == <<"<", "N", "o", "n", "e", ">">>

\* the usernames and passwords the login bodies are drawn from
LoginNames == {S_user1, S_user2, S_user3, NoneStr}
Passwords == {"password1", "password2", "wrong", "<None>"}

\* (mutation) the user's id handed out as the token
access_token_Id(user) == << user.id >>

\* "access_token": user["username"]
access_token(user) == user.username

login(username, password) ==
    /\ IF username \notin DOMAIN FAKE_USERS_DB
          \/ FAKE_USERS_DB[username].password # password
       THEN resp' = Response("login", NoHeader, "none", 0, password, username,
                             401, "Incorrect username or password", <<>>)
       ELSE LET user == FAKE_USERS_DB[username]
            IN  resp' = Response("login", NoHeader, user.id, 0, password, username,
                                 200, "",
                                 << [access_token |-> access_token(user),
                                     token_type |-> "bearer",
                                     user |-> [id |-> user.id, username |-> user.username]] >>)
    /\ UNCHANGED << posts, likes, clock, issued, created, liked, inflight >>
    /\ prevLikes' = likes

\* ------------------------------------------------------------ specification
\* every request runs to completion before the next one starts
Next ==
    \/ \E hdr \in Headers, text \in Texts : create_post(hdr, text)
    \/ \E hdr \in Headers, post_id \in PostIds : delete_post(hdr, post_id)
    \/ \E hdr \in Headers, post_id \in PostIds : like_post(hdr, post_id)
    \/ \E hdr \in Headers, post_id \in PostIds : unlike_post(hdr, post_id)
    \/ list_posts
    \/ \E username \in Usernames : get_user_posts(username)
    \/ \E username \in LoginNames, password \in Passwords : login(username, password)

Spec == Init /\ [][Next]_vars

\* ------------------------------------------------------------ the resolver alone
\* the credential strings the resolver is applied to: an optional leading space,
\* a scheme word, spaces, a name, trailing text
AuthInputs ==
    { a \o b \o c \o d \o e :
        a \in { <<>>, <<" ">> },
        b \in { SubSeq(S_Bearer, 1, 6), <<"b", "e", "a", "r", "e", "r">>, <<>> },
        c \in { <<>>, <<" ">>, <<" ", " ">> },
        d \in { S_user1, S_user2, S_user3, SubSeq(S_user1, 1, 4), <<>> },
        e \in { <<>>, <<" ">>, <<" ", "x">>, <<"x">> } }

\* get_current_user applied to one credential string
resolve(authorization) ==
    LET auth == get_current_user(authorization)
    IN  /\ resp' = Response("auth", authorization, auth.user.id, 0, "", auth.user.username,
                            auth.status, auth.detail, <<>>)
        /\ UNCHANGED << posts, likes, clock, issued, created, liked, inflight >>
        /\ prevLikes' = likes

NextAuth ==
    \/ \E authorization \in AuthInputs : resolve(authorization)
    \/ \E username \in LoginNames, password \in Passwords : login(username, password)

SpecAuth == Init /\ [][NextAuth]_vars

\* ------------------------------------------- interleaved requests (several workers)
\* Requests of several server processes on the one database file: each query of
\* a handler reads the committed state, each commit writes at once, and other
\* requests' queries and commits come between them.

\* the posts and likes of a database that n create_post requests and then one
\* like_post request per element of pairs (in the order e) have filled
SeededPosts(n, owner) ==
    { [id |-> i, text |-> "hello", timestamp |-> i,
       owner_id |-> FAKE_USERS_DB[owner[i]].id,
       owner_username |-> FAKE_USERS_DB[owner[i]].username] : i \in 1..n }

SeededLikes(e) ==
    { [id |-> i, user_id |-> e[i][1], post_id |-> e[i][2]] : i \in 1..Len(e) }

\* the orders in which the pairs can have been liked
LikeOrders(pairs) ==
    { e \in [1..Cardinality(pairs) -> pairs] :
        \A q \in pairs : \E i \in 1..Cardinality(pairs) : e[i] = q }

InitConc ==
    \E n \in 1..MaxPosts :
      \E owner \in [1..n -> DOMAIN FAKE_USERS_DB] :
        \E pairs \in SUBSET (UserIds \X (1..n)) :
          /\ Cardinality(pairs) < MaxLikeId
          /\ \E e \in LikeOrders(pairs) :
                /\ posts = SeededPosts(n, owner)
                /\ likes = SeededLikes(e)
                /\ liked = pairs
                /\ prevLikes = SeededLikes(e)
          /\ clock = n
          /\ issued = 1..n
          /\ created = [i \in 1..n |-> i]
          /\ resp = Response("start", NoHeader, "none", 0, "", <<>>, 0, "", <<>>)
          /\ inflight = [r \in 1..MaxReq |-> Idle]

\* the slot r moves to s
Move(r, s) == inflight' = [inflight EXCEPT ![r] = s]

\* the slot r is answered with status
Answer(r, status) == Move(r, [inflight[r] EXCEPT !.pc = "done", !.status = status])

\* a request arrives: Depends(get_current_user) runs before the handler body
Arrive(r, op, hdr, post_id) ==
    LET auth == get_current_user(hdr)
    IN  /\ inflight[r].pc = "idle"
        /\ IF auth.status # 200
           THEN Move(r, Slot(op, "done", hdr, "none", post_id, 0, auth.status))
           ELSE Move(r, Slot(op, "find_post", hdr, auth.user.id, post_id, 0, 0))
        /\ UNCHANGED << posts, likes, clock, issued, resp, prevLikes, created, liked >>

\* like_post and unlike_post, first query: the post
like_find_post(r) ==
    /\ inflight[r].op \in {"like", "unlike"}
    /\ inflight[r].pc = "find_post"
    /\ IF PostById(posts, inflight[r].post_id) = {}
       THEN Answer(r, 404)
       ELSE Move(r, [inflight[r] EXCEPT !.pc = "find_like"])
    /\ UNCHANGED << posts, likes, clock, issued, resp, prevLikes, created, liked >>

\* like_post, second query: the user's like of the post
like_find_like(r) ==
    /\ inflight[r].op = "like"
    /\ inflight[r].pc = "find_like"
    /\ IF LikesOf(likes, inflight[r].post_id, inflight[r].user) # {}
       THEN Answer(r, 400)
       ELSE Move(r, [inflight[r] EXCEPT !.pc = "commit"])
    /\ UNCHANGED << posts, likes, clock, issued, resp, prevLikes, created, liked >>

\* like_post: db.add(new_like); db.commit(). The engine is created without
\* PRAGMA foreign_keys, so the insert does not look at the posts table.
like_commit(r) ==
    /\ inflight[r].op = "like"
    /\ inflight[r].pc = "commit"
    /\ NextLikeId(likes) <= MaxLikeId
    /\ likes' = likes \cup { [id |-> NextLikeId(likes),
                               user_id |-> inflight[r].user,
                               post_id |-> inflight[r].post_id] }
    /\ liked' = liked \cup { << inflight[r].user, inflight[r].post_id >> }
    /\ Answer(r, 200)
    /\ UNCHANGED << posts, clock, issued, resp, prevLikes, created >>

\* unlike_post, second query: the user's like of the post
unlike_find_like(r) ==
    /\ inflight[r].op = "unlike"
    /\ inflight[r].pc = "find_like"
    /\ LET found == LikesOf(likes, inflight[r].post_id, inflight[r].user)
       IN  IF found = {}
           THEN Answer(r, 400)
           ELSE \E like \in found :
                    Move(r, [inflight[r] EXCEPT !.pc = "commit", !.row = like.id])
    /\ UNCHANGED << posts, likes, clock, issued, resp, prevLikes, created, liked >>

\* unlike_post: db.delete(like); db.commit() deletes the row with the id read
unlike_commit(r) ==
    /\ inflight[r].op = "unlike"
    /\ inflight[r].pc = "commit"
    /\ likes' = { l \in likes : l.id # inflight[r].row }
    /\ liked' = liked \ { << inflight[r].user, inflight[r].post_id >> }
    /\ Answer(r, 200)
    /\ UNCHANGED << posts, clock, issued, resp, prevLikes, created >>

\* delete_post, the query and the two checks
delete_find_post(r) ==
    /\ inflight[r].op = "delete"
    /\ inflight[r].pc = "find_post"
    /\ LET found == PostById(posts, inflight[r].post_id)
       IN  IF found = {}
           THEN Answer(r, 404)
           ELSE \E post_to_delete \in found :
                    IF NotOwner(post_to_delete, inflight[r].user)
                    THEN Answer(r, 403)
                    ELSE Move(r, [inflight[r] EXCEPT !.pc = "commit"])
    /\ UNCHANGED << posts, likes, clock, issued, resp, prevLikes, created, liked >>

\* delete_post: the likes of the post and the post go in one transaction
delete_commit(r) ==
    /\ inflight[r].op = "delete"
    /\ inflight[r].pc = "commit"
    /\ likes' = LikesAfterDelete(likes, inflight[r].post_id)
    /\ posts' = { p \in posts : p.id # inflight[r].post_id }
    /\ Answer(r, 204)
    /\ UNCHANGED << clock, issued, resp, prevLikes, created, liked >>

NextConc ==
    \E r \in 1..MaxReq :
        \/ \E op \in {"like", "unlike", "delete"}, hdr \in Headers, post_id \in PostIds :
                Arrive(r, op, hdr, post_id)
        \/ like_find_post(r)
        \/ like_find_like(r)
        \/ like_commit(r)
        \/ unlike_find_like(r)
        \/ unlike_commit(r)
        \/ delete_find_post(r)
        \/ delete_commit(r)

SpecConc == InitConc /\ [][NextConc]_vars

\* ================================================================ properties

\* the step is a completed request op of an authenticated user
Authenticated(op) == resp'.op = op /\ resp'.user # "none"

\* ---------------------------------------------------------------- C1
\* C1: in every state reached by completed create, like, unlike and delete
\* requests, the likes table holds at most one row per (user_id, post_id).
C1_OneLikePerUserAndPost ==
    \A a, b \in likes : (a.user_id = b.user_id /\ a.post_id = b.post_id) => a = b

\* a repeated like was refused while the table holds two rows
C1_Witness ==
    /\ resp.op = "like" /\ resp.status = 400
    /\ Cardinality(likes) = 2

\* ---------------------------------------------------------------- C2
\* every like row refers to a post of the posts table
C2_NoOrphan == \A l \in likes : \E p \in posts : p.id = l.post_id

\* a step that removes a post removes, with it, exactly the likes of that post;
\* a delete that is not answered 204 changes neither table; like, unlike and
\* delete on the id of a post that was created and is gone answer 404
C2_Step ==
    /\ \A id \in PostIds :
         (PostById(posts, id) # {} /\ PostById(posts', id) = {})
            => likes' = { l \in likes : l.post_id # id }
    /\ (resp'.op = "delete" /\ resp'.status # 204) => (posts' = posts /\ likes' = likes)
    /\ \A op \in {"like", "unlike", "delete"} :
         (Authenticated(op) /\ resp'.post_id \in issued
            /\ PostById(posts, resp'.post_id) = {})
            => resp'.status = 404

\* C2: in every reachable state every Like row's post_id is the id of an
\* existing post; a successful delete_post removes the post and all its likes
\* in one step, and afterwards like, unlike and delete on that id report
\* NotFound.
C2_DeleteIsAtomic == []C2_NoOrphan /\ [][C2_Step]_vars

\* a post that had a like was deleted, and a later like on its id got 404
C2_Witness ==
    /\ resp.op = "like" /\ resp.status = 404 /\ resp.user # "none"
    /\ resp.post_id \in issued
    /\ \E u \in UserIds : << u, resp.post_id >> \in liked

\* ---------------------------------------------------------------- C3
C3_Step ==
    /\ Authenticated("delete") =>
         LET found == PostById(posts, resp'.post_id)
         IN  /\ found = {} => resp'.status = 404
             /\ \A p \in found :
                  /\ p.owner_id # resp'.user => (resp'.status = 403 /\ p \in posts')
                  /\ p.owner_id = resp'.user => (resp'.status = 204 /\ p \notin posts')
    /\ \A p \in posts :
         p \notin posts' =>
            /\ resp'.op = "delete" /\ resp'.status = 204
            /\ resp'.post_id = p.id /\ resp'.user = p.owner_id

\* C3: delete_post by an authenticated requester answers NotFound if no post
\* has the id, otherwise Forbidden if the requester is not the owner, otherwise
\* 204 with the post removed; a post leaves the store only by its owner's delete.
C3_DeleteOutcomes == [][C3_Step]_vars

\* a delete by a user who is not the owner was refused
C3_Witness ==
    /\ resp.op = "delete" /\ resp.status = 403
    /\ \E p \in posts : p.id = resp.post_id /\ p.owner_id # resp.user

\* ---------------------------------------------------------------- C4
C4_Step ==
    (Authenticated("like") /\ PostById(posts, resp'.post_id) # {}) =>
        IF << resp'.user, resp'.post_id >> \in liked
        THEN resp'.status = 400 /\ resp'.detail = "Already liked this post"
        ELSE resp'.status = 200

\* C4: a like of an existing post succeeds when the user's last successful
\* like/unlike of it was not a like (none, or an unlike), and fails with
\* AlreadyLiked when it was a like, whatever other users did.
C4_LikeOnceUntilUnliked == [][C4_Step]_vars

\* a second like was refused on a post that another user likes as well
C4_Witness ==
    /\ resp.op = "like" /\ resp.status = 400
    /\ \E l \in likes : l.post_id = resp.post_id /\ l.user_id # resp.user

\* ---------------------------------------------------------------- C5
C5_Step ==
    (Authenticated("unlike") /\ PostById(posts, resp'.post_id) # {}) =>
        LET mine == { l \in likes : l.post_id = resp'.post_id /\ l.user_id = resp'.user }
        IN  IF mine = {}
            THEN /\ resp'.status = 400 /\ resp'.detail = "Post not liked"
                 /\ likes' = likes
            ELSE /\ resp'.status = 200
                 /\ \E l \in mine : likes' = likes \ {l}
                 /\ Cardinality(likes') = Cardinality(likes) - 1

\* C5: unlike of an existing post by a user without a Like row for it fails
\* with NotLiked and changes nothing; with the row, it removes exactly that row.
C5_UnlikeOutcomes == [][C5_Step]_vars

\* an unlike was refused on a post that only another user likes
C5_Witness ==
    /\ resp.op = "unlike" /\ resp.status = 400
    /\ \E l \in likes : l.post_id = resp.post_id /\ l.user_id # resp.user

\* ---------------------------------------------------------------- C6
C6_Step ==
    \A op \in {"like", "unlike"} :
        (Authenticated(op) /\ \A p \in posts : p.id # resp'.post_id) =>
            /\ resp'.status = 404 /\ resp'.detail = "Post not found"
            /\ likes' = likes

\* C6: like and unlike on a post id that does not exist (never created, or
\* deleted) answer NotFound, never AlreadyLiked or NotLiked, and change no row.
C6_PostCheckedFirst == [][C6_Step]_vars

\* an unlike of a deleted post was answered NotFound
C6_Witness ==
    /\ resp.op = "unlike" /\ resp.status = 404 /\ resp.user # "none"
    /\ resp.post_id \in issued

\* ---------------------------------------------------------------- C7
\* C7: when a like_post and a delete_post of the same post interleave, the like
\* either commits before the delete (whose commit removes its row) or fails with
\* NotFound: once both are answered, no Like row of the liking user refers to
\* the deleted post.
C7_LikeDeleteRace ==
    \A a, b \in 1..MaxReq :
        ( /\ inflight[a].op = "like" /\ inflight[a].pc = "done"
          /\ inflight[a].user # "none"
          /\ inflight[b].op = "delete" /\ inflight[b].pc = "done"
          /\ inflight[b].status = 204
          /\ inflight[a].post_id = inflight[b].post_id )
        => \A l \in likes : l.post_id # inflight[b].post_id

\* ---------------------------------------------------------------- C8
\* the entries of a listing response
Entries == { resp.body[i] : i \in 1..Len(resp.body) }

IsListing == resp.op \in {"list", "user_posts"}

\* C8: the likes_count a listing reports for a post is the number of Like rows
\* of that post at the time of the read, which is the number of users whose
\* last successful like/unlike of the post was a like.
C8_LikesCount ==
    IsListing =>
        \A e \in Entries :
            /\ e.likes_count = Cardinality({ l \in likes : l.post_id = e.id })
            /\ e.likes_count = Cardinality({ u \in UserIds : << u, e.id >> \in liked })

\* a listing shows a post with two likes next to a post with none
C8_Witness ==
    /\ IsListing
    /\ \E e \in Entries : e.likes_count = 2
    /\ \E e \in Entries : e.likes_count = 0

\* ---------------------------------------------------------------- C9
\* the directory entry of the user with the id uid
UserById(uid) == CHOOSE k \in DOMAIN FAKE_USERS_DB : FAKE_USERS_DB[k].id = uid

C9_Step ==
    Authenticated("create") =>
        /\ resp'.status = 201
        /\ \E new \in posts' :
             /\ posts' = posts \cup {new}
             /\ \A p \in posts : p.id # new.id
             /\ new.text = resp'.text
             /\ new.owner_id = resp'.user
             /\ new.owner_username = FAKE_USERS_DB[UserById(resp'.user)].username
             /\ resp'.body = << Post(new, 0) >>
        /\ Cardinality(posts') = Cardinality(posts) + 1
        /\ likes' = likes

\* a listing shows every post that no user likes with likes_count 0
C9_ListedWithoutLikes ==
    IsListing =>
        \A e \in Entries :
            (\A u \in UserIds : << u, e.id >> \notin liked) => e.likes_count = 0

\* C9: create_post by an authenticated user succeeds for any text, adds exactly
\* one post with an id no stored post has and the requester as owner, returns
\* it with likes_count 0, and a listing shows it with 0 until someone likes it.
C9_Create == [][C9_Step]_vars /\ []C9_ListedWithoutLikes

\* a second post, with the empty text, was created
C9_Witness ==
    /\ resp.op = "create" /\ resp.status = 201 /\ resp.text = ""
    /\ Cardinality(posts) = 2

\* ---------------------------------------------------------------- C10
\* the position of the post id in the order of creation
CreatedAt(id) == CHOOSE i \in 1..Len(created) : created[i] = id

\* C10: both listings are ordered by timestamp, newest first: of two posts of a
\* result the one created later comes first, so that the post created last
\* heads the global list and its owner's list.
C10_NewestFirst ==
    IsListing =>
        /\ \A i, j \in 1..Len(resp.body) :
             i < j => /\ resp.body[i].timestamp > resp.body[j].timestamp
                      /\ CreatedAt(resp.body[i].id) > CreatedAt(resp.body[j].id)
        /\ \A p \in posts :
             ( /\ p.id = created[Len(created)]
               /\ resp.op = "user_posts" => p.owner_username = resp.username )
             => resp.body[1].id = p.id

\* a listing of two posts whose ids are in the other order than their creation
C10_Witness ==
    /\ IsListing
    /\ Len(resp.body) = 2
    /\ resp.body[1].id < resp.body[2].id

\* ---------------------------------------------------------------- C11
\* the sub-sequence of the entries of s whose owner_username is username
RECURSIVE OwnedEntries(_, _)
OwnedEntries(s, username) ==
    IF s = <<>> THEN <<>>
    ELSE IF Head(s).owner_username = username
         THEN << Head(s) >> \o OwnedEntries(Tail(s), username)
         ELSE OwnedEntries(Tail(s), username)

\* the complete listings: every stored post once, newest first, with its count
FullListings ==
    { full \in [1..Cardinality(posts) -> { Post(p, Cardinality({ l \in likes : l.post_id = p.id })) : p \in posts }] :
        /\ \A i, j \in 1..Cardinality(posts) : i < j => full[i].timestamp > full[j].timestamp }

\* C11: list_posts returns every stored post exactly once; get_user_posts
\* returns exactly the sub-list of those owned by username, in the same order
\* and with the same counts; a username without posts gets the empty list,
\* never an error.
C11_Listings ==
    /\ resp.op = "list" =>
         /\ resp.status = 200
         /\ resp.body \in FullListings
    /\ resp.op = "user_posts" =>
         /\ resp.status = 200
         /\ \E full \in FullListings : resp.body = OwnedEntries(full, resp.username)
         /\ (\A p \in posts : p.owner_username # resp.username) => resp.body = <<>>

\* the posts of one user were listed while another user has a post as well
C11_Witness ==
    /\ resp.op = "user_posts"
    /\ Len(resp.body) = 1
    /\ Cardinality(posts) = 2

\* ---------------------------------------------------------------- C12
\* the header is 'Bearer ' followed by exactly a key of the user directory
ValidCredential(h) == \E k \in DOMAIN FAKE_USERS_DB : h = S_Bearer \o k

C12_Step ==
    \A op \in {"create", "delete", "like", "unlike"} :
        (resp'.op = op /\ ~ValidCredential(resp'.hdr)) =>
            /\ resp'.status = 401
            /\ posts' = posts
            /\ likes' = likes

\* C12: create_post, delete_post, like_post and unlike_post called without a
\* credential or with an invalid one (no 'Bearer ' prefix, unknown token) fail
\* with 401, whether or not the post exists, and leave posts and likes unchanged.
C12_Unauthenticated == [][C12_Step]_vars

\* ---------------------------------------------------------------- C13
\* C13: the resolver accepts a credential string exactly when it is 'Bearer '
\* followed by a token that is, in full, a key of the user directory, and then
\* returns that user's id and username; every other string gets 401.
C13_VerbatimToken ==
    resp.op = "auth" =>
        IF ValidCredential(resp.hdr)
        THEN /\ resp.status = 200
             /\ \E k \in DOMAIN FAKE_USERS_DB :
                  /\ resp.hdr = S_Bearer \o k
                  /\ resp.user = FAKE_USERS_DB[k].id
                  /\ resp.username = FAKE_USERS_DB[k].username
        ELSE resp.status = 401

\* ---------------------------------------------------------------- C14
\* C14: login succeeds exactly for a seeded username with its stored password
\* and fails with 401 otherwise (also without username or password); the token
\* it returns is the username, and 'Bearer ' + token resolves to the id and
\* username that login returned.
C14_Login ==
    resp.op = "login" =>
        /\ resp.status = 200 <=>
             \E k \in DOMAIN FAKE_USERS_DB :
                 k = resp.username /\ FAKE_USERS_DB[k].password = resp.text
        /\ resp.status # 200 => (resp.status = 401 /\ resp.body = <<>>)
        /\ resp.status = 200 =>
             /\ resp.body[1].access_token = resp.username
             /\ resp.body[1].user.id = resp.user
             /\ get_current_user(S_Bearer \o resp.body[1].access_token) =
                    [status |-> 200, user |-> resp.body[1].user, detail |-> ""]

\* user2 logged in
C14_Witness ==
    /\ resp.op = "login" /\ resp.status = 200
    /\ resp.username = S_user2

\* ---------------------------------------------------------------- C15
\* a post that is still stored after the step is the same row as before, and a
\* row that is new was created by this step for the requester
C15_Step ==
    /\ \A p \in posts : \A q \in posts' : q.id = p.id => q = p
    /\ \A q \in posts' \ posts :
         /\ resp'.op = "create" /\ resp'.status = 201
         /\ q.id = resp'.post_id
         /\ q.owner_id = resp'.user

\* the owner fields of every post are the id and the username of one seeded user
C15_OwnerIsSeededUser ==
    \A p \in posts :
        \E k \in DOMAIN FAKE_USERS_DB :
            /\ FAKE_USERS_DB[k].id = p.owner_id
            /\ FAKE_USERS_DB[k].username = p.owner_username

\* C15: a post's id, text, timestamp, owner_id and owner_username are the same
\* in every later state in which it exists, and its owner fields both denote
\* the seeded user who created it.
C15_PostImmutable == [][C15_Step]_vars /\ []C15_OwnerIsSeededUser

\* a liked post is still stored after the other post was deleted
C15_Witness ==
    /\ resp.op = "delete" /\ resp.status = 204
    /\ Cardinality(posts) = 1
    /\ likes # {}

\* ---------------------------------------------------------------- C16
\* C16: when two like_post requests of one user for one post interleave (and
\* no other request runs), once both are answered at most one of them has
\* succeeded and the likes table holds at most one row for the pair.
C16_ConcurrentLikes ==
    \A a, b \in 1..MaxReq :
        ( /\ a # b
          /\ inflight[a].op = "like" /\ inflight[a].pc = "done"
          /\ inflight[b].op = "like" /\ inflight[b].pc = "done"
          /\ inflight[a].user # "none"
          /\ inflight[a].user = inflight[b].user
          /\ inflight[a].post_id = inflight[b].post_id
          /\ \A c \in 1..MaxReq \ {a, b} : inflight[c].pc = "idle" )
        => /\ ~(inflight[a].status = 200 /\ inflight[b].status = 200)
           /\ Cardinality({ l \in likes : /\ l.user_id = inflight[a].user
                                           /\ l.post_id = inflight[a].post_id }) <= 1

\* ---------------------------------------------------------------- C17
C17_Step ==
    /\ resp'.status \notin {200, 201, 204} => (posts' = posts /\ likes' = likes)
    /\ resp'.op \in {"list", "user_posts", "login"} => (posts' = posts /\ likes' = likes)

\* C17: a request that ends in a failure leaves the posts table and the likes
\* table as they were, and so do list_posts, get_user_posts and login.
C17_FailuresChangeNothing == [][C17_Step]_vars

\* the delete of a liked post by a user who does not own it was refused
C17_Witness ==
    /\ resp.op = "delete" /\ resp.status = 403
    /\ \E l \in likes : l.post_id = resp.post_id

\* ---------------------------------------------------------------- C18
\* the number of like rows of the post id in the table ls
RowsOf(ls, id) == Cardinality({ l \in ls : l.post_id = id })

C18_Step ==
    /\ (resp'.op = "like" /\ resp'.status = 200) =>
         /\ posts' = posts
         /\ \E row \in likes' \ likes :
              /\ likes' = likes \cup {row}
              /\ row.user_id = resp'.user /\ row.post_id = resp'.post_id
         /\ \A id \in PostIds :
              RowsOf(likes', id) = RowsOf(likes, id) + (IF id = resp'.post_id THEN 1 ELSE 0)
    /\ (resp'.op = "unlike" /\ resp'.status = 200) =>
         /\ posts' = posts
         /\ \E row \in likes \ likes' :
              /\ likes' = likes \ {row}
              /\ row.user_id = resp'.user /\ row.post_id = resp'.post_id
         /\ \A id \in PostIds :
              RowsOf(likes', id) = RowsOf(likes, id) - (IF id = resp'.post_id THEN 1 ELSE 0)
    /\ (resp'.op = "delete" /\ resp'.status = 204) =>
         /\ posts' = { p \in posts : p.id # resp'.post_id }
         /\ { l \in likes' : l.post_id # resp'.post_id }
              = { l \in likes : l.post_id # resp'.post_id }

\* C18: a successful like or unlike by u on p changes only the presence of the
\* row (u, p): posts, other users' rows and other posts' rows stay, the count
\* of p moves by one; a successful delete of p leaves the other posts and the
\* rows of other posts as they were.
C18_Frame == [][C18_Step]_vars

\* a post was deleted while the other post keeps its like
C18_Witness ==
    /\ resp.op = "delete" /\ resp.status = 204
    /\ \E l \in likes : l.post_id # resp.post_id

\* ---------------------------------------------------------------- C19
\* the (user_id, post_id) pairs of the like rows ls
Pairs(ls) == { << l.user_id, l.post_id >> : l \in ls }

\* the step is a successful unlike that directly follows the successful like of
\* the same user on the same post: then the pairs and the count of every post
\* are those of the table before the like
C19_Step ==
    ( /\ resp.op = "like" /\ resp.status = 200
      /\ resp'.op = "unlike" /\ resp'.status = 200
      /\ resp'.user = resp.user /\ resp'.post_id = resp.post_id )
    => /\ Pairs(likes') = Pairs(prevLikes)
       /\ \A id \in PostIds : RowsOf(likes', id) = RowsOf(prevLikes, id)
       /\ posts' = posts

\* C19: like_post directly followed by unlike_post of the same user on the same
\* post, both successful, gives back the set of (user_id, post_id) pairs and
\* every post's likes_count from before the like.
C19_LikeUnlikeRoundTrip == [][C19_Step]_vars

\* a like was taken back while another user's like of the same post stays
C19_Witness ==
    /\ resp.op = "unlike" /\ resp.status = 200
    /\ << resp.user, resp.post_id >> \in Pairs(prevLikes)
    /\ \E l \in likes : l.post_id = resp.post_id /\ l.user_id # resp.user

====
